---- MODULE Spec2Model ----
(***************************************************************************)
(* A model of k2sqlite.builder: build_sqlite, ensure_schema, the record    *)
(* accumulator (_process_start_element, _process_end_element and the field *)
(* classifiers), _calculate_modern_jlpt and _insert_character_data.        *)
(*                                                                         *)
(* Strings are ASCII in the model: the literal U+6C34 (water) is written   *)
(* "U+6C34", its on reading "SUI", its kun reading "mizu".                 *)
(*                                                                         *)
(* Python's None is the empty tuple and a value v that may be None is the  *)
(* one-element tuple <<v>>.                                                *)
(***************************************************************************)
EXTENDS Integers, Sequences, FiniteSets, TLC

VARIABLES
    pc,          \* where build_sqlite is: "start", "schema", "loop", "done", "failed"
    runs,        \* how many times build_sqlite has been invoked on the destination
    ip,          \* index in Script of the next statement executescript runs
    schema,      \* sqlite_master of the destination: the set of schema objects
    err,         \* the message of the exception that ended the run ("" when none)
    batch_size,  \* build_sqlite's batch_size argument
    xml,         \* build_sqlite's xml_path argument: which document is read
    pos,         \* the reader's position: events delivered, open record elements, fields
    rec,         \* the open record (None when no record is open)
    count,       \* build_sqlite's count
    batch,       \* build_sqlite's batch
    db,          \* the tables as the connection sees them (rows in rowid order)
    disk,        \* the tables as of the last commit
    before,      \* the destination (schema and committed rows) when the run began
    ended,       \* record-end events so far that found an open record with a literal
    saved,       \* the value of ended at the last commit
    ignored,     \* child rows INSERT OR IGNORE has left out so far
    root,        \* record elements delivered that the reader's tree still holds
    accepted,    \* the records handed to _insert_character_data so far, in order
    args,        \* LevelSpec: the arguments given to _calculate_modern_jlpt
    ret          \* LevelSpec: what it returned (None before the call)

vars == <<pc, runs, ip, schema, err, batch_size, xml, pos, rec, count, batch,
          db, disk, before, ended, saved, ignored, root, accepted, args, ret>>

None == <<>>
Some(v) == <<v>>
Val(o) == o[1]

(***************************************************************************)
(* Bounds of the model.                                                    *)
(***************************************************************************)
MaxRuns == 2      \* invocations of build_sqlite on one destination
MaxBatch == 2     \* largest batch_size
MaxRecords == 2   \* record-start events of a document
MaxFields == 5    \* field elements of a document
MaxEntries == 3   \* entries of the record of a one-record document

(***************************************************************************)
(* ensure_schema: the statements of the script given to executescript, in  *)
(* order. ine is the statement's IF NOT EXISTS; on is the table or view an *)
(* index is created on.                                                    *)
(***************************************************************************)
Stmt(op, name, on, ine) == [op |-> op, name |-> name, on |-> on, ine |-> ine]

Script ==
    << Stmt("pragma", "journal_mode", "", FALSE),
       Stmt("pragma", "synchronous", "", FALSE),
       Stmt("pragma", "temp_store", "", FALSE),
       Stmt("pragma", "foreign_keys", "", FALSE),
       Stmt("table", "kanji", "", TRUE),
       Stmt("table", "kanji_radical", "", TRUE),
       Stmt("table", "kanji_reading", "", TRUE),
       Stmt("table", "kanji_meaning", "", TRUE),
       Stmt("table", "kanji_variant", "", TRUE),
       Stmt("index", "idx_kanji_freq", "kanji", TRUE),
       Stmt("index", "idx_reading", "kanji_reading", TRUE),
       Stmt("index", "idx_meaning", "kanji_meaning", TRUE),
       Stmt("index", "ux_reading", "kanji_reading", TRUE),
       Stmt("index", "ux_meaning", "kanji_meaning", TRUE),
       Stmt("index", "ux_radical", "kanji_radical", TRUE),
       Stmt("index", "ux_variant", "kanji_variant", TRUE),
       Stmt("view", "kanji_priority", "", TRUE),
       Stmt("view", "kanji_seed", "", FALSE),
       Stmt("view", "distractor_pool", "", FALSE),
       Stmt("index", "idx_kanji_seed_lvl", "kanji", TRUE),
       Stmt("index", "idx_kanji_seed_literal", "kanji", TRUE),
       Stmt("index", "idx_meaning_for_distractor", "kanji_meaning", TRUE),
       Stmt("index", "idx_seed_lvl", "kanji_seed", TRUE),
       Stmt("index", "idx_seed_lit", "kanji_seed", TRUE),
       Stmt("index", "idx_pool_lvl", "distractor_pool", TRUE),
       Stmt("pragma", "journal_mode", "", FALSE),
       Stmt("pragma", "synchronous", "", FALSE),
       Stmt("vacuum", "", "", FALSE),
       Stmt("analyze", "", "", FALSE) >>

\* A schema object, as a row of sqlite_master.
Obj(type, name, tbl) == [type |-> type, name |-> name, tbl |-> tbl]

HasObject(sch, types, name) == \E o \in sch : o.type \in types /\ o.name = name

\* The outcome of a statement: the schema it leaves and the error it raised.
Outcome(sch, msg) == [schema |-> sch, msg |-> msg]

\* CREATE TABLE / CREATE VIEW [IF NOT EXISTS] name: a table or view of that
\* name makes the statement a no-op with IF NOT EXISTS and an error without.
CreateRelation(sch, s) ==
    IF HasObject(sch, {"table", "view"}, s.name)
    THEN IF s.ine THEN Outcome(sch, "")
         ELSE Outcome(sch, "already exists")
    ELSE Outcome(sch \cup {Obj(s.op, s.name, s.name)}, "")

\* CREATE INDEX [IF NOT EXISTS] name ON tbl: the engine refuses an index on a
\* view before it looks for an index of that name.
CreateIndex(sch, s) ==
    IF ~HasObject(sch, {"table", "view"}, s.on)
    THEN Outcome(sch, "no such table")
    ELSE IF HasObject(sch, {"view"}, s.on)
    THEN Outcome(sch, "views may not be indexed")
    ELSE IF HasObject(sch, {"index"}, s.name)
    THEN IF s.ine THEN Outcome(sch, "")
         ELSE Outcome(sch, "already exists")
    ELSE Outcome(sch \cup {Obj("index", s.name, s.on)}, "")

\* One statement of the script. Each statement is committed on its own, so
\* what the statements before a failing one created stays in the destination.
Execute(sch, s) ==
    CASE s.op \in {"table", "view"} -> CreateRelation(sch, s)
      [] s.op = "index" -> CreateIndex(sch, s)
      [] OTHER -> Outcome(sch, "")

(***************************************************************************)
(* Element text. A text is a tuple of symbols; " " is white space and the  *)
(* digits are "0" .. "9". An element without text has the text None, which *)
(* is the empty tuple, as falsy as Python's "".                            *)
(***************************************************************************)
Digits == {"0", "1", "2", "3", "4", "5", "6", "7", "8", "9"}

DigitValue(c) ==
    CASE c = "0" -> 0 [] c = "1" -> 1 [] c = "2" -> 2 [] c = "3" -> 3
      [] c = "4" -> 4 [] c = "5" -> 5 [] c = "6" -> 6 [] c = "7" -> 7
      [] c = "8" -> 8 [] c = "9" -> 9

RECURSIVE lstrip(_)
lstrip(t) == IF t # <<>> /\ Head(t) = " " THEN lstrip(Tail(t)) ELSE t

RECURSIVE rstrip(_)
rstrip(t) ==
    IF t # <<>> /\ t[Len(t)] = " " THEN rstrip(SubSeq(t, 1, Len(t) - 1)) ELSE t

\* str.strip()
strip(t) == rstrip(lstrip(t))

\* Characters that str.isdigit() takes for digits and int() does not, such
\* as the superscript two, written "U+00B2".
Superscripts == {"U+00B2"}

\* str.isdigit()
isdigit(t) == t # <<>> /\ \A i \in 1..Len(t) : t[i] \in Digits \cup Superscripts

\* int() of a text raises ValueError.
int_raises(t) == t = <<>> \/ \E i \in 1..Len(t) : t[i] \notin Digits

\* int() of a text of digits
RECURSIVE int(_)
int(t) ==
    IF t = <<>> THEN 0
    ELSE 10 * int(SubSeq(t, 1, Len(t) - 1)) + DigitValue(t[Len(t)])

\* An element as the reader delivers it: its tag, its text and its attributes
\* (a set of <<name, value>> pairs).
Element(tag, txt, attrib) == [tag |-> tag, text |-> txt, attrib |-> attrib]

\* elem.get(name)
Get(elem, name) ==
    IF \E a \in elem.attrib : a[1] = name
    THEN Some((CHOOSE a \in elem.attrib : a[1] = name)[2])
    ELSE None

\* text(el)
text(el) == IF el.text # <<>> THEN strip(el.text) ELSE <<>>

(***************************************************************************)
(* The record accumulator and the field classifiers.                       *)
(***************************************************************************)
create_empty_record ==
    [literal |-> <<>>, grade |-> None, stroke_count |-> None, freq |-> None,
     jlpt |-> None, radicals |-> <<>>, readings_on |-> <<>>,
     readings_kun |-> <<>>, meanings_en |-> <<>>, variants |-> <<>>]

Max(a, b) == IF a >= b THEN a ELSE b

\* Line 173 with + for max: the entries are added up.
parse_integer_field_sum(elem, current_value) ==
    IF elem.text = <<>> THEN current_value
    ELSE IF ~isdigit(strip(elem.text)) THEN current_value
    ELSE IF current_value = None THEN Some(int(strip(elem.text)))
    ELSE Some(Val(current_value) + int(strip(elem.text)))

parse_integer_field(elem, current_value) ==
    IF elem.text = <<>> THEN current_value
    ELSE IF ~isdigit(strip(elem.text)) THEN current_value
    ELSE IF current_value = None THEN Some(int(strip(elem.text)))
    ELSE Some(Max(Val(current_value), int(strip(elem.text))))

\* _parse_integer_field raises out of line 172: the text passes isdigit()
\* and int() refuses it.
parse_integer_field_raises(elem) ==
    /\ elem.text # <<>>
    /\ isdigit(strip(elem.text))
    /\ int_raises(strip(elem.text))

process_start_element(tag, r) ==
    IF tag = "character" THEN Some(create_empty_record) ELSE r

process_radical(elem, r) ==
    IF Get(elem, "rad_type") = Some("classical") /\ text(elem) # <<>>
    THEN [r EXCEPT !.radicals = Append(@, text(elem))]
    ELSE r

\* Lines 227-228 without their test: every kind but ja_on is taken for kun.
process_reading_else_kun(elem, r) ==
    IF text(elem) = <<>> THEN r
    ELSE IF Get(elem, "r_type") = Some("ja_on")
    THEN [r EXCEPT !.readings_on = Append(@, text(elem))]
    ELSE [r EXCEPT !.readings_kun = Append(@, text(elem))]

process_reading(elem, r) ==
    IF text(elem) = <<>> THEN r
    ELSE IF Get(elem, "r_type") = Some("ja_on")
    THEN [r EXCEPT !.readings_on = Append(@, text(elem))]
    ELSE IF Get(elem, "r_type") = Some("ja_kun")
    THEN [r EXCEPT !.readings_kun = Append(@, text(elem))]
    ELSE r

\* Line 236 without its test of m_lang: meanings in every language are kept.
process_meaning_any_lang(elem, r) ==
    IF text(elem) # <<>>
    THEN [r EXCEPT !.meanings_en = Append(@, text(elem))]
    ELSE r

process_meaning(elem, r) ==
    IF text(elem) # <<>> /\ Get(elem, "m_lang") \in {None, Some("en")}
    THEN [r EXCEPT !.meanings_en = Append(@, text(elem))]
    ELSE r

process_variant(elem, r) ==
    LET vtype == IF Get(elem, "var_type") \in {None, Some("")}
                 THEN "unknown" ELSE Val(Get(elem, "var_type"))
    IN  IF text(elem) # <<>>
        THEN [r EXCEPT !.variants = Append(@, <<vtype, text(elem)>>)]
        ELSE r

\* _process_end_element on an open record r
\* Lines 193, 197 and 199 with the record's value for current_value, as
\* line 195 has it: each field keeps its running maximum.
FoldFieldMax(tag, elem, r) ==
    CASE tag = "literal" -> [r EXCEPT !.literal = text(elem)]
      [] tag = "grade" -> [r EXCEPT !.grade = parse_integer_field(elem, r.grade)]
      [] tag = "stroke_count" ->
            [r EXCEPT !.stroke_count = parse_integer_field(elem, r.stroke_count)]
      [] tag = "freq" -> [r EXCEPT !.freq = parse_integer_field(elem, r.freq)]
      [] tag = "jlpt" -> [r EXCEPT !.jlpt = parse_integer_field(elem, r.jlpt)]
      [] tag = "rad_value" -> process_radical(elem, r)
      [] tag = "reading" -> process_reading(elem, r)
      [] tag = "meaning" -> process_meaning(elem, r)
      [] tag = "variant" -> process_variant(elem, r)
      [] OTHER -> r

FoldField(tag, elem, r) ==
    CASE tag = "literal" -> [r EXCEPT !.literal = text(elem)]
      [] tag = "grade" -> [r EXCEPT !.grade = parse_integer_field(elem, None)]
      [] tag = "stroke_count" ->
            [r EXCEPT !.stroke_count = parse_integer_field(elem, r.stroke_count)]
      [] tag = "freq" -> [r EXCEPT !.freq = parse_integer_field(elem, None)]
      [] tag = "jlpt" -> [r EXCEPT !.jlpt = parse_integer_field(elem, None)]
      [] tag = "rad_value" -> process_radical(elem, r)
      [] tag = "reading" -> process_reading(elem, r)
      [] tag = "meaning" -> process_meaning(elem, r)
      [] tag = "variant" -> process_variant(elem, r)
      [] OTHER -> r

\* _process_end_element raises: a record is open and the element is one
\* of those given to _parse_integer_field.
process_end_element_raises(tag, elem, r) ==
    /\ r # None
    /\ tag \in {"grade", "stroke_count", "freq", "jlpt"}
    /\ parse_integer_field_raises(elem)

\* Without lines 187-188: a field that finds no record opens one.
process_end_element_opening(tag, elem, r) ==
    Some(FoldField(tag, elem, IF r = None THEN create_empty_record ELSE Val(r)))

process_end_element(tag, elem, r) ==
    IF r = None THEN r ELSE Some(FoldField(tag, elem, Val(r)))

\* _dedup_preserve: result is the list built so far (seen is its set of items)
RECURSIVE DedupInto(_, _)
DedupInto(result, items) ==
    IF items = <<>> THEN result
    ELSE IF \E i \in 1..Len(result) : result[i] = Head(items)
    THEN DedupInto(result, Tail(items))
    ELSE DedupInto(Append(result, Head(items)), Tail(items))

\* Lines 16-18 without the test of seen: every item is kept.
dedup_nothing(items) == items

dedup_preserve(items) == DedupInto(<<>>, items)

(***************************************************************************)
(* _calculate_modern_jlpt. grade, freq and old_jlpt are None or Some(n).   *)
(***************************************************************************)
\* The first frequency tier with its bound left out of the tier.
calculate_modern_jlpt_exclusive(grade, freq, old_jlpt) ==
    IF old_jlpt = Some(4) THEN 5
    ELSE IF old_jlpt = Some(3) THEN 4
    ELSE IF old_jlpt = Some(2) THEN 3
    ELSE IF old_jlpt = Some(1) THEN 2
    ELSE IF freq # None /\ Val(freq) < 200 /\ grade \in {Some(1), Some(2)} THEN 5
    ELSE IF freq # None /\ Val(freq) <= 500 /\ grade \in {Some(3), Some(4)} THEN 4
    ELSE IF freq # None /\ Val(freq) <= 1000 /\ grade \in {Some(5), Some(6)} THEN 3
    ELSE 1

calculate_modern_jlpt(grade, freq, old_jlpt) ==
    IF old_jlpt = Some(4) THEN 5
    ELSE IF old_jlpt = Some(3) THEN 4
    ELSE IF old_jlpt = Some(2) THEN 3
    ELSE IF old_jlpt = Some(1) THEN 2
    ELSE IF freq # None /\ Val(freq) <= 200 /\ grade \in {Some(1), Some(2)} THEN 5
    ELSE IF freq # None /\ Val(freq) <= 500 /\ grade \in {Some(3), Some(4)} THEN 4
    ELSE IF freq # None /\ Val(freq) <= 1000 /\ grade \in {Some(5), Some(6)} THEN 3
    ELSE 1

(***************************************************************************)
(* Storage. A table is the sequence of its rows in rowid order. The rows   *)
(* of a table with a unique index may not agree on the index's columns.    *)
(***************************************************************************)
EmptyTables ==
    [kanji |-> <<>>, kanji_radical |-> <<>>, kanji_reading |-> <<>>,
     kanji_meaning |-> <<>>, kanji_variant |-> <<>>]

TableNames == DOMAIN EmptyTables

\* The columns of the unique indexes the script creates.
UniqueColumns(index) ==
    CASE index = "ux_reading" -> {"literal", "type", "reading"}
      [] index = "ux_meaning" -> {"literal", "meaning"}
      [] index = "ux_radical" -> {"literal", "rad_value"}
      [] index = "ux_variant" -> {"literal", "var_type", "value"}
      [] OTHER -> {}

\* Whether row conflicts with a row of the table under a unique index of it.
Conflicts(sch, table, rows, row) ==
    \E o \in sch :
        /\ o.type = "index"
        /\ o.tbl = table
        /\ UniqueColumns(o.name) # {}
        /\ \E i \in 1..Len(rows) :
              \A c \in UniqueColumns(o.name) : rows[i][c] = row[c]

\* INSERT INTO table VALUES row on a table without its unique index.
InsertUnchecked(sch, table, rows, row) == Append(rows, row)

\* INSERT OR REPLACE INTO table VALUES row, for a child table: the rows in
\* conflict are deleted and the row is appended.
InsertOrReplaceChild(sch, table, rows, row) ==
    Append(SelectSeq(rows, LAMBDA r : ~Conflicts(sch, table, <<r>>, row)), row)

\* INSERT OR IGNORE INTO table VALUES row
InsertOrIgnore(sch, table, rows, row) ==
    IF Conflicts(sch, table, rows, row) THEN rows ELSE Append(rows, row)

\* REPLACE that deletes every row of kanji, not only the row of the literal.
InsertReplacingAll(rows, row) == <<row>>

\* INSERT into a kanji table without its PRIMARY KEY.
InsertDuplicate(rows, row) == Append(rows, row)

\* Line 291 with IGNORE for REPLACE: the row that holds the literal stays.
InsertOrKeep(rows, row) ==
    IF \E i \in 1..Len(rows) : rows[i].literal = row.literal
    THEN rows ELSE Append(rows, row)

\* INSERT OR REPLACE INTO kanji VALUES row: literal is the primary key; the
\* row that holds the literal is deleted and the new row gets a new rowid.
InsertOrReplace(rows, row) ==
    Append(SelectSeq(rows, LAMBDA r : r.literal # row.literal), row)

RECURSIVE InsertAllOrIgnore(_, _, _, _)
InsertAllOrIgnore(sch, table, rows, new) ==
    IF new = <<>> THEN rows
    ELSE InsertAllOrIgnore(sch, table,
                           InsertOrIgnore(sch, table, rows, Head(new)), Tail(new))

\* Line 297 with rec["jlpt"] for modern_jlpt: the legacy level is stored.
KanjiRowLegacy(r) ==
    [literal |-> r.literal, grade |-> r.grade, stroke_count |-> r.stroke_count,
     freq |-> r.freq, jlpt |-> r.jlpt]

\* The row _insert_character_data gives to the kanji table.
KanjiRow(r) ==
    [literal |-> r.literal, grade |-> r.grade, stroke_count |-> r.stroke_count,
     freq |-> r.freq,
     jlpt |-> Some(calculate_modern_jlpt(r.grade, r.freq, r.jlpt))]

\* The child rows _insert_character_data offers to each table, in order.
RadicalRows(r) ==
    LET vs == dedup_preserve(r.radicals)
    IN  [i \in 1..Len(vs) |-> [literal |-> r.literal, rad_value |-> vs[i]]]

ReadingRows(r) ==
    LET on == dedup_preserve(r.readings_on)
        kun == dedup_preserve(r.readings_kun)
    IN  [i \in 1..Len(on) |->
            [literal |-> r.literal, type |-> "on", reading |-> on[i]]]
        \o [i \in 1..Len(kun) |->
            [literal |-> r.literal, type |-> "kun", reading |-> kun[i]]]

MeaningRows(r) ==
    LET vs == dedup_preserve(r.meanings_en)
    IN  [i \in 1..Len(vs) |->
            [literal |-> r.literal, lang |-> "en", meaning |-> vs[i]]]

VariantRows(r) ==
    LET vs == dedup_preserve(r.variants)
    IN  [i \in 1..Len(vs) |->
            [literal |-> r.literal, var_type |-> vs[i][1], value |-> vs[i][2]]]

\* _insert_character_data without lines 289-299: the child rows are written
\* and the row of kanji is not.
insert_child_rows_only(sch, t, r) ==
    [kanji |-> t.kanji,
     kanji_radical |->
        InsertAllOrIgnore(sch, "kanji_radical", t.kanji_radical, RadicalRows(r)),
     kanji_reading |->
        InsertAllOrIgnore(sch, "kanji_reading", t.kanji_reading, ReadingRows(r)),
     kanji_meaning |->
        InsertAllOrIgnore(sch, "kanji_meaning", t.kanji_meaning, MeaningRows(r)),
     kanji_variant |->
        InsertAllOrIgnore(sch, "kanji_variant", t.kanji_variant, VariantRows(r))]

\* _insert_character_data(cur, rec): the tables after it
insert_character_data(sch, t, r) ==
    [kanji |-> InsertOrReplace(t.kanji, KanjiRow(r)),
     kanji_radical |->
        InsertAllOrIgnore(sch, "kanji_radical", t.kanji_radical, RadicalRows(r)),
     kanji_reading |->
        InsertAllOrIgnore(sch, "kanji_reading", t.kanji_reading, ReadingRows(r)),
     kanji_meaning |->
        InsertAllOrIgnore(sch, "kanji_meaning", t.kanji_meaning, MeaningRows(r)),
     kanji_variant |->
        InsertAllOrIgnore(sch, "kanji_variant", t.kanji_variant, VariantRows(r))]

\* The views, over tables t. Rows(seq) is the set of the rows of a table.
Rows(seq) == {seq[i] : i \in 1..Len(seq)}

\* The English meanings and the readings of a type stored for a literal.
MeaningsOf(t, literal) ==
    {m.meaning : m \in {x \in Rows(t.kanji_meaning) :
                            x.literal = literal /\ x.lang = "en"}}

ReadingsOf(t, literal, type) ==
    {x.reading : x \in {y \in Rows(t.kanji_reading) :
                            y.literal = literal /\ y.type = type}}

\* The rows of kanji that have a level.
Levelled(t) == {k \in Rows(t.kanji) : k.jlpt # None}

\* kanji_priority: its column priority_score for a row k of kanji.
priority_score(k) ==
    IF k.freq # None THEN Val(k.freq)
    ELSE IF k.grade # None THEN 3000 + Val(k.grade)
    ELSE IF k.jlpt # None THEN 4000 + Val(k.jlpt)
    ELSE 9999

\* The place of a literal in the BINARY collation: for a literal of one
\* character, its code point.
CodePoint(c) == CASE c = "U+6C34" -> 27700 [] c = "U+706B" -> 28779

Collation(literal) == CodePoint(literal[1])

\* kanji_priority: the rows of kanji with their score (the columns joined
\* from the child tables are left out), and ORDER BY priority_score,
\* k.literal: row a comes before row b.
kanji_priority(t) ==
    {[literal |-> k.literal, grade |-> k.grade, freq |-> k.freq,
      jlpt |-> k.jlpt, priority_score |-> priority_score(k)] : k \in Rows(t.kanji)}

OrderedBefore(a, b) ==
    \/ a.priority_score < b.priority_score
    \/ /\ a.priority_score = b.priority_score
       /\ Collation(a.literal) < Collation(b.literal)

\* kanji_seed: one row for each row of kanji that has a level and an English
\* meaning. main_meaning is one of the literal's meanings (LIMIT 1 without an
\* order), so the rows the view may show are given; on_prime and kun_prime
\* join the readings of the literal, here their set.
kanji_seed(t) ==
    UNION {{[literal |-> k.literal, lvl |-> k.jlpt, freq |-> k.freq,
             grade |-> k.grade, main_meaning |-> m,
             on_prime |-> ReadingsOf(t, k.literal, "on"),
             kun_prime |-> ReadingsOf(t, k.literal, "kun")] :
                m \in MeaningsOf(t, k.literal)} : k \in Levelled(t)}

\* What SELECT * FROM kanji_seed may return: one row for each row of kanji
\* that passes the WHERE clause, named here by its place in kanji, with one
\* of the meanings LIMIT 1 may pick.
SeedSource(t) ==
    {i \in 1..Len(t.kanji) :
        t.kanji[i].jlpt # None /\ MeaningsOf(t, t.kanji[i].literal) # {}}

SeedRowsOf(t, k) ==
    {r \in kanji_seed(t) : /\ r.literal = k.literal /\ r.lvl = k.jlpt
                           /\ r.freq = k.freq /\ r.grade = k.grade}

kanji_seed_results(t) ==
    {f \in [SeedSource(t) -> kanji_seed(t)] :
        \A i \in SeedSource(t) : f[i] \in SeedRowsOf(t, t.kanji[i])}

\* distractor_pool: kanji joined with its English meanings, as the set of
\* the (lvl, meaning) pairs shown.
distractor_pool(t) ==
    UNION {{<<k.jlpt, m>> : m \in MeaningsOf(t, k.literal)} : k \in Levelled(t)}

(***************************************************************************)
(* The reader. An event is what iterparse yields: "start" or "end" and the *)
(* element. xml names what is read: SampleXml is the one document          *)
(* tests/fixtures/sample_kanjidic2.xml, the other names are classes of     *)
(* documents.                                                              *)
(***************************************************************************)
Event(ev, elem) == [event |-> ev, elem |-> elem]

Start(tag) == Event("start", Element(tag, <<>>, {}))
End(tag, txt, attrib) == Event("end", Element(tag, txt, attrib))

SampleXml == "sample_kanjidic2.xml"

\* Classes of documents: every document, within the bounds, whose field
\* elements are among StreamElements of the class.
LiteralsXml == "literals/*.xml"
EntriesXml == "entries/*.xml"

\* Documents that are not well formed: the reader raises ParseError at some
\* point of each, after the events of what came before that point.
BrokenXml == "broken/*.xml"

\* Documents whose records give a grade, a frequency rank and legacy levels.
LevelsXml == "levels/*.xml"

\* Documents of one record: the literal U+6C34 and then entries of one kind,
\* stroke counts, readings or meanings. Which entries, and in which order,
\* is part of the input (args).
StrokesXml == "strokes/*.xml"
ReadingsXml == "readings/*.xml"
MeaningsXml == "meanings/*.xml"

\* Documents of one record: the literal U+6C34 and then grades, frequency
\* ranks and legacy levels, some of them not integers.
FieldsXml == "fields/*.xml"

OneRecord == {StrokesXml, ReadingsXml, MeaningsXml, FieldsXml}

\* Documents whose records are told apart by what ranks them in
\* kanji_priority: a frequency rank, a grade or neither.
PriorityXml == "priority/*.xml"

\* Documents whose records have English meanings, meanings in another
\* language or none.
SeedXml == "seed/*.xml"

\* Documents whose records give a grade in digits or in characters that
\* only look like digits.
DigitsXml == "digits/*.xml"

\* Documents whose records share one literal and differ in having a grade
\* and in having a meaning.
RepeatsXml == "repeats/*.xml"

Documents ==
    {SampleXml, LiteralsXml, EntriesXml, BrokenXml, LevelsXml, PriorityXml,
     SeedXml, DigitsXml, RepeatsXml}
        \cup OneRecord

\* The events of the sample document after its root's start event.
Sample ==
    << Start("header"), End("header", <<>>, {}),
       Start("character"),
       Start("literal"), End("literal", <<"U+6C34">>, {}),
       Start("misc"),
       Start("grade"), End("grade", <<"1">>, {}),
       Start("stroke_count"), End("stroke_count", <<"4">>, {}),
       Start("freq"), End("freq", <<"6", "0">>, {}),
       End("misc", <<>>, {}),
       Start("reading"), End("reading", <<"SUI">>, {<<"r_type", "ja_on">>}),
       Start("reading"), End("reading", <<"mizu">>, {<<"r_type", "ja_kun">>}),
       Start("meaning"), End("meaning", <<"water">>, {}),
       End("character", <<>>, {}),
       End("kanjidic2", <<>>, {}) >>

\* The field elements of the documents of a class: records told apart by
\* their literal (given, padded with white space, blank or absent), and
\* records of one literal with entries for every child table.
StreamElements(doc) ==
    CASE doc = LiteralsXml ->
            { Element("literal", <<"U+6C34">>, {}),
              Element("literal", <<" ", "U+706B">>, {}),
              Element("literal", <<" ">>, {}),
              Element("reading", <<"SUI">>, {<<"r_type", "ja_on">>}),
              Element("reading", <<"SUI">>, {<<"r_type", "ja_kun">>}) }
      [] doc = EntriesXml ->
            { Element("literal", <<"U+6C34">>, {}),
              Element("rad_value", <<"8", "5">>, {<<"rad_type", "classical">>}),
              Element("reading", <<"mizu">>, {<<"r_type", "ja_kun">>}),
              Element("meaning", <<"water">>, {}),
              Element("variant", <<"1", "-", "2">>, {<<"var_type", "jis208">>}) }
      [] doc = BrokenXml ->
            { Element("literal", <<"U+6C34">>, {}) }
      [] doc = PriorityXml ->
            { Element("literal", <<"U+6C34">>, {}),
              Element("literal", <<"U+706B">>, {}),
              Element("grade", <<"1">>, {}),
              Element("grade", <<"2">>, {}),
              Element("freq", <<"3", "0", "0", "2">>, {}) }
      [] doc = SeedXml ->
            { Element("literal", <<"U+6C34">>, {}),
              Element("literal", <<"U+706B">>, {}),
              Element("meaning", <<"water">>, {}),
              Element("meaning", <<"aqua">>, {<<"m_lang", "en">>}),
              Element("meaning", <<"eau">>, {<<"m_lang", "fr">>}) }
      [] doc = DigitsXml ->
            { Element("literal", <<"U+6C34">>, {}),
              Element("grade", <<"2">>, {}),
              Element("grade", <<"U+00B2">>, {}) }
      [] doc = RepeatsXml ->
            { Element("literal", <<"U+6C34">>, {}),
              Element("grade", <<"1">>, {}),
              Element("meaning", <<"water">>, {}) }
      [] doc = LevelsXml ->
            { Element("literal", <<"U+6C34">>, {}),
              Element("grade", <<"2">>, {}),
              Element("freq", <<"2", "0", "0">>, {}),
              Element("jlpt", <<"1">>, {}),
              Element("jlpt", <<"3">>, {}) }
      [] OTHER -> {}

\* The entries a one-record document may have: stroke counts that are
\* integers (one of them of two digits, after white space) and one that is
\* not; readings of the on kind, of the kun kind, of another kind, of no
\* kind, and one without text; meanings in English, in no stated language,
\* in French, and one without text; grades, frequency ranks and legacy
\* levels that are integers, one of each that is not, the legacy level
\* without text.
Entries(doc) ==
    CASE doc = StrokesXml ->
            { Element("stroke_count", <<"4">>, {}),
              Element("stroke_count", <<"5">>, {}),
              Element("stroke_count", <<" ", "1", "2">>, {}),
              Element("stroke_count", <<"x">>, {}) }
      [] doc = ReadingsXml ->
            { Element("reading", <<"SUI">>, {<<"r_type", "ja_on">>}),
              Element("reading", <<"SUI">>, {<<"r_type", "ja_kun">>}),
              Element("reading", <<"SUI">>, {<<"r_type", "pinyin">>}),
              Element("reading", <<"SUI">>, {}),
              Element("reading", <<>>, {<<"r_type", "ja_on">>}) }
      [] doc = FieldsXml ->
            { Element("grade", <<"2">>, {}),
              Element("grade", <<"3">>, {}),
              Element("grade", <<"x">>, {}),
              Element("freq", <<"7">>, {}),
              Element("freq", <<"x">>, {}),
              Element("jlpt", <<"1">>, {}),
              Element("jlpt", <<>>, {}) }
      [] doc = MeaningsXml ->
            { Element("meaning", <<"water">>, {}),
              Element("meaning", <<"water">>, {<<"m_lang", "en">>}),
              Element("meaning", <<"water">>, {<<"m_lang", "fr">>}),
              Element("meaning", <<"eau">>, {<<"m_lang", "fr">>}),
              Element("meaning", <<>>, {<<"m_lang", "en">>}) }
      [] OTHER -> {}

\* The inputs of a build besides the batch size: for a one-record document
\* the entries of its record, in document order.
Inputs(doc) ==
    IF doc \in OneRecord
    THEN {Some(fs) : fs \in UNION {[1..n -> Entries(doc)] : n \in 0..MaxEntries}}
    ELSE {None}

\* The events of the one-record document with entries fs, after its root's
\* start event.
Record(fs) ==
    << Start("character"),
       Start("literal"), End("literal", <<"U+6C34">>, {}) >>
    \o [i \in 1..2 * Len(fs) |->
            IF i % 2 = 1 THEN Start(fs[(i + 1) \div 2].tag)
            ELSE Event("end", fs[i \div 2])]
    \o << End("character", <<>>, {}), End("kanjidic2", <<>>, {}) >>

\* The documents given event by event, and their events.
Given == {SampleXml} \cup OneRecord

Events == IF xml = SampleXml THEN Sample ELSE Record(Val(args))

StreamEvents(doc) ==
    {Start("character"), Start("misc"), End("character", <<>>, {})}
        \cup {Event("end", e) : e \in StreamElements(doc)}

\* The reader's position before the first event of the loop.
StartOfDocument == [n |-> 0, open |-> 0, nrec |-> 0, nf |-> 0]

\* The events the reader may deliver next.
NextEvents ==
    IF xml \in Given
    THEN IF pos.n < Len(Events) THEN {Events[pos.n + 1]} ELSE {}
    ELSE StreamEvents(xml)

IsRecord(e) == e.elem.tag = "character"

\* The reader's position after event e.
Advance(e) ==
    [n |-> IF xml \in Given THEN pos.n + 1 ELSE 0,
     open |-> IF ~IsRecord(e) THEN pos.open
              ELSE IF e.event = "start" THEN pos.open + 1 ELSE pos.open - 1,
     nrec |-> IF IsRecord(e) /\ e.event = "start" THEN pos.nrec + 1 ELSE pos.nrec,
     nf |-> IF ~IsRecord(e) /\ e.event = "end" THEN pos.nf + 1 ELSE pos.nf]

\* The document is well formed and within the bounds up to and including e.
Readable(e) ==
    /\ e \in NextEvents
    /\ IsRecord(e) /\ e.event = "start" => pos.nrec < MaxRecords
    /\ IsRecord(e) /\ e.event = "end" => pos.open > 0
    /\ ~IsRecord(e) /\ e.event = "end" /\ xml \notin Given => pos.nf < MaxFields

AtEndOfDocument ==
    /\ pos.open = 0
    /\ xml \in Given => pos.n = Len(Events)
    /\ xml # BrokenXml

\* The next thing in the document is not well formed.
AtMalformedInput == xml = BrokenXml

(***************************************************************************)
(* build_sqlite.                                                           *)
(***************************************************************************)
BatchSizes == 0..MaxBatch

Destination(sch, rows) == [schema |-> sch, rows |-> rows]

\* Line 353 without its test of the literal, and without its test of the tag.
AcceptsWithoutLiteral(tag, r) == tag = "character" /\ r # None

AcceptsAnyTag(tag, r) == r # None /\ Val(r).literal # <<>>

\* Line 353: the record-end event hands the open record to storage.
Accepts(tag, r) == tag = "character" /\ r # None /\ Val(r).literal # <<>>

\* Line 358 with 1 for batch_size: a commit after every record.
BatchOfOne(b, size) == b >= 1

\* Line 358 with == for >=.
BatchExact(b, size) == b = size

\* Line 358 with > for >=.
BatchOverfull(b, size) == b > size

\* Line 358
BatchFull(b, size) == b >= size

\* Lines 367-368 left out: no commit after the loop.
NoBatchPending(b) == FALSE

\* Line 367
BatchPending(b) == b # 0

\* A call of build_sqlite on a fresh destination.
Init ==
    /\ pc = "start"
    /\ runs = 1
    /\ ip = 1
    /\ schema = {}
    /\ err = ""
    /\ batch_size \in BatchSizes
    /\ xml \in Documents
    /\ pos = StartOfDocument
    /\ rec = None
    /\ count = 0
    /\ batch = 0
    /\ db = EmptyTables
    /\ disk = EmptyTables
    /\ before = Destination({}, EmptyTables)
    /\ ended = 0
    /\ saved = 0
    /\ ignored = 0
    /\ root = 0
    /\ accepted = <<>>
    /\ args \in Inputs(xml)
    /\ ret = None

\* Lines 335-336: the connection is opened.
Connect ==
    /\ pc = "start"
    /\ pc' = "schema"
    /\ ip' = 1
    /\ before' = Destination(schema, disk)
    /\ UNCHANGED <<runs, schema, err, batch_size, xml, pos, rec, count, batch,
                   db, disk, ended, saved, ignored, root, accepted, args, ret>>

\* ensure_schema, one statement of the script at a time. A statement that
\* fails raises out of build_sqlite; after the last one come conn.commit()
\* and lines 338-345.
ExecuteStatement ==
    /\ pc = "schema"
    /\ LET out == Execute(schema, Script[ip])
       IN  /\ schema' = out.schema
           /\ err' = out.msg
           /\ pc' = IF out.msg # "" THEN "failed"
                    ELSE IF ip = Len(Script) THEN "loop" ELSE "schema"
           /\ ip' = IF out.msg # "" THEN ip ELSE ip + 1
    /\ UNCHANGED <<runs, batch_size, xml, pos, rec, count, batch, db, disk,
                   before, ended, saved, ignored, root, accepted, args, ret>>

\* build_sqlite is called again with the same arguments.
Rebuild ==
    /\ pc \in {"done", "failed"}
    /\ runs < MaxRuns
    /\ runs' = runs + 1
    /\ pc' = "start"
    /\ ip' = 1
    /\ err' = ""
    /\ pos' = StartOfDocument
    /\ rec' = None
    /\ count' = 0
    /\ batch' = 0
    /\ db' = disk
    /\ ended' = 0
    /\ saved' = 0
    /\ ignored' = 0
    /\ root' = 0
    /\ accepted' = <<>>
    /\ UNCHANGED <<schema, batch_size, xml, disk, before, args, ret>>

\* A start event: line 351.
StartEvent(e) ==
    /\ pc = "loop"
    /\ e.event = "start"
    /\ Readable(e)
    /\ pos' = Advance(e)
    /\ rec' = process_start_element(e.elem.tag, rec)
    /\ root' = IF IsRecord(e) THEN root + 1 ELSE root
    /\ UNCHANGED <<pc, runs, ip, schema, err, batch_size, xml, count, batch,
                   db, disk, before, ended, saved, ignored, accepted, args, ret>>

RecordStart == \E e \in NextEvents : IsRecord(e) /\ StartEvent(e)

OtherStart == \E e \in NextEvents : ~IsRecord(e) /\ StartEvent(e)

\* What the run is measured against: the number of child rows a record
\* offers and a destination holds, and whether e is a record-end event that
\* closes a record with a literal.
ChildRowsOffered(r) ==
    Len(RadicalRows(r)) + Len(ReadingRows(r)) + Len(MeaningRows(r))
        + Len(VariantRows(r))

ChildRows(t) ==
    Len(t.kanji_radical) + Len(t.kanji_reading) + Len(t.kanji_meaning)
        + Len(t.kanji_variant)

ClosesRecordWithLiteral(e) ==
    IsRecord(e) /\ e.event = "end" /\ rec # None /\ Val(rec).literal # <<>>

\* An end event: lines 352-365.
EndEvent(e) ==
    /\ pc = "loop"
    /\ e.event = "end"
    /\ Readable(e)
    /\ ~process_end_element_raises(e.elem.tag, e.elem, rec)
    /\ pos' = Advance(e)
    /\ ended' = IF ClosesRecordWithLiteral(e) THEN ended + 1 ELSE ended
    /\ IF Accepts(e.elem.tag, rec)
       THEN LET stored == insert_character_data(schema, db, Val(rec))
                commit == BatchFull(batch + 1, batch_size)
            IN  /\ db' = stored
                /\ count' = count + 1
                /\ batch' = IF commit THEN 0 ELSE batch + 1
                /\ disk' = IF commit THEN stored ELSE disk
                /\ saved' = IF commit THEN ended' ELSE saved
                /\ ignored' = ignored + ChildRowsOffered(Val(rec))
                                  - (ChildRows(stored) - ChildRows(db))
                /\ accepted' = Append(accepted, Val(rec))
                /\ root' = 0
                /\ rec' = None
       ELSE /\ rec' = process_end_element(e.elem.tag, e.elem, rec)
            /\ UNCHANGED <<count, batch, db, disk, saved, ignored, root,
                           accepted>>
    /\ UNCHANGED <<pc, runs, ip, schema, err, batch_size, xml, before, args, ret>>

RecordEnd == \E e \in NextEvents : IsRecord(e) /\ EndEvent(e)

FieldEnd == \E e \in NextEvents : ~IsRecord(e) /\ EndEvent(e)

\* The reader is exhausted: lines 367-370. db stays what the connection saw
\* last; what of it is not on disk is lost when the connection is closed.
EndOfDocument ==
    /\ pc = "loop"
    /\ AtEndOfDocument
    /\ pc' = "done"
    /\ disk' = IF BatchPending(batch) THEN db ELSE disk
    /\ saved' = IF BatchPending(batch) THEN ended ELSE saved
    /\ UNCHANGED <<runs, ip, schema, err, batch_size, xml, pos, rec, count,
                   batch, db, before, ended, ignored, root, accepted, args,
                   ret>>

\* Lines 367-368 in a finally clause: what is pending is committed when the
\* reader raises.
CommitsPendingOnError(b) == b # 0

\* Lines 367-369 are not reached when the reader raises: nothing is committed.
CommitsOnError(b) == FALSE

\* The reader raises ParseError out of the for statement of line 347, and
\* out of build_sqlite: no commit, no return value. What the connection had
\* not committed is lost with it.
MalformedInput ==
    /\ pc = "loop"
    /\ AtMalformedInput
    /\ pc' = "failed"
    /\ err' = "ParseError"
    /\ disk' = IF CommitsOnError(batch) THEN db ELSE disk
    /\ saved' = IF CommitsOnError(batch) THEN ended ELSE saved
    /\ db' = disk'
    /\ UNCHANGED <<runs, ip, schema, batch_size, xml, pos, rec, count, batch,
                   before, ended, ignored, root, accepted, args, ret>>

\* _process_end_element raises ValueError at line 365, out of build_sqlite:
\* as for the reader's error, no commit and no return value.
ClassifierError ==
    /\ pc = "loop"
    /\ \E e \in NextEvents :
          /\ e.event = "end"
          /\ Readable(e)
          /\ ~Accepts(e.elem.tag, rec)
          /\ process_end_element_raises(e.elem.tag, e.elem, rec)
          /\ pos' = Advance(e)
    /\ pc' = "failed"
    /\ err' = "ValueError"
    /\ disk' = IF CommitsOnError(batch) THEN db ELSE disk
    /\ saved' = IF CommitsOnError(batch) THEN ended ELSE saved
    /\ db' = disk'
    /\ UNCHANGED <<runs, ip, schema, batch_size, xml, rec, count, batch,
                   before, ended, ignored, root, accepted, args, ret>>

SchemaNext == Connect \/ ExecuteStatement \/ Rebuild

LoopNext ==
    \/ RecordStart
    \/ OtherStart
    \/ RecordEnd
    \/ FieldEnd
    \/ EndOfDocument
    \/ MalformedInput
    \/ ClassifierError

Next == SchemaNext \/ LoopNext

\* build_sqlite from its call on a fresh destination.
Spec == Init /\ [][Next]_vars

\* No run of Spec enters the loop of build_sqlite: ensure_schema raises on
\* every destination, at its first index on a view or, when the views exist,
\* at CREATE VIEW kanji_seed.
LoopNeverEntered == pc \notin {"loop", "done"}

\* So the runs of Spec are those of its steps up to the return of
\* ensure_schema.
BuildSpec == Init /\ [][SchemaNext]_vars

\* ensure_schema(conn) from statement i on
RECURSIVE RunScript(_, _)
RunScript(sch, i) ==
    IF i > Len(Script) THEN Outcome(sch, "")
    ELSE LET out == Execute(sch, Script[i])
         IN  IF out.msg # "" THEN out ELSE RunScript(out.schema, i + 1)

\* The statement ensure_schema(conn) stops at, from statement i on: the
\* first that fails, or Len(Script) + 1 when none does.
RECURSIVE StopsAt(_, _)
StopsAt(sch, i) ==
    IF i > Len(Script) THEN i
    ELSE LET out == Execute(sch, Script[i])
         IN  IF out.msg # "" THEN i ELSE StopsAt(out.schema, i + 1)

\* VACUUM and ANALYZE have been executed: executescript is past both.
Maintained ==
    \A i \in 1..Len(Script) : Script[i].op \in {"vacuum", "analyze"} => i < ip

\* The loop of build_sqlite (lines 343-370) on its own: the destination is as
\* ensure_schema leaves a fresh one, with every table, unique index and view.
LoopInit ==
    /\ pc = "loop"
    /\ runs = 1
    /\ ip = StopsAt({}, 1)
    /\ schema = RunScript({}, 1).schema
    /\ err = ""
    /\ batch_size \in BatchSizes
    /\ xml \in Documents
    /\ pos = StartOfDocument
    /\ rec = None
    /\ count = 0
    /\ batch = 0
    /\ db = EmptyTables
    /\ disk = EmptyTables
    /\ before = Destination({}, EmptyTables)
    /\ ended = 0
    /\ saved = 0
    /\ ignored = 0
    /\ root = 0
    /\ accepted = <<>>
    /\ args \in Inputs(xml)
    /\ ret = None

LoopSpec == LoopInit /\ [][LoopNext]_vars

\* The batch sizes of 1 or less that --batch (cli.py:309, an int that is not
\* validated) hands to build_sqlite: 1, 0 and a negative one.
SmallBatchSizes == -1..1

\* Documents that differ in what a commit depends on: records accepted,
\* skipped and repeated, a reader's error, a classifier's error, and a
\* document given event by event.
SmallBatchDocuments ==
    {SampleXml, BrokenXml, DigitsXml, RepeatsXml, StrokesXml}

SmallBatchInit ==
    /\ pc = "loop"
    /\ runs = 1
    /\ ip = StopsAt({}, 1)
    /\ schema = RunScript({}, 1).schema
    /\ err = ""
    /\ batch_size \in SmallBatchSizes
    /\ xml \in SmallBatchDocuments
    /\ pos = StartOfDocument
    /\ rec = None
    /\ count = 0
    /\ batch = 0
    /\ db = EmptyTables
    /\ disk = EmptyTables
    /\ before = Destination({}, EmptyTables)
    /\ ended = 0
    /\ saved = 0
    /\ ignored = 0
    /\ root = 0
    /\ accepted = <<>>
    /\ args \in Inputs(xml)
    /\ ret = None

\* The loop with a small batch size. The loop is a for statement over the
\* reader's events in one thread: while the document has a next event, or
\* has ended, or is found malformed, the next step is taken.
SmallBatchSpec == SmallBatchInit /\ [][LoopNext]_vars /\ WF_vars(LoopNext)

(***************************************************************************)
(* _calculate_modern_jlpt on its own: every combination of arguments       *)
(* within the bounds, each None or a number.                               *)
(***************************************************************************)
MaxGrade == 7
MaxFreq == 1001
MaxLegacy == 5

Optional(S) == {None} \cup {Some(v) : v \in S}

LevelInit ==
    /\ pc = "level"
    /\ runs = 1
    /\ ip = 1
    /\ schema = {}
    /\ err = ""
    /\ batch_size = 0
    /\ xml = SampleXml
    /\ pos = StartOfDocument
    /\ rec = None
    /\ count = 0
    /\ batch = 0
    /\ db = EmptyTables
    /\ disk = EmptyTables
    /\ before = Destination({}, EmptyTables)
    /\ ended = 0
    /\ saved = 0
    /\ ignored = 0
    /\ root = 0
    /\ accepted = <<>>
    /\ args \in {Some([grade |-> g, freq |-> f, old_jlpt |-> j]) :
                    g \in Optional(0..MaxGrade), f \in Optional(0..MaxFreq),
                    j \in Optional(0..MaxLegacy)}
    /\ ret = None

CalculateLevel ==
    /\ pc = "level"
    /\ ret = None
    /\ ret' = Some(calculate_modern_jlpt(Val(args).grade, Val(args).freq,
                                         Val(args).old_jlpt))
    /\ UNCHANGED <<pc, runs, ip, schema, err, batch_size, xml, pos, rec, count,
                   batch, db, disk, before, ended, saved, ignored, root,
                   accepted, args>>

LevelSpec == LevelInit /\ [][CalculateLevel]_vars

(***************************************************************************)
(* Claims.                                                                 *)
(***************************************************************************)

\* The reference precedence of the derived proficiency level: rule by rule,
\* the first rule that matches gives the level.
LegacyRule(j) == j \in {Some(1), Some(2), Some(3), Some(4)}
TierRule(g, f, bound, grades) ==
    f # None /\ g # None /\ Val(f) <= bound /\ Val(g) \in grades

ReferenceLevel(g, f, j) ==
    CASE LegacyRule(j) -> Val(j) + 1
      [] ~LegacyRule(j) /\ TierRule(g, f, 200, {1, 2}) -> 5
      [] ~LegacyRule(j) /\ ~TierRule(g, f, 200, {1, 2})
            /\ TierRule(g, f, 500, {3, 4}) -> 4
      [] ~LegacyRule(j) /\ ~TierRule(g, f, 200, {1, 2})
            /\ ~TierRule(g, f, 500, {3, 4})
            /\ TierRule(g, f, 1000, {5, 6}) -> 3
      [] OTHER -> 1

\* C1: for every combination of grade, frequency rank and legacy level, each
\* possibly unset, the derived level is the one the reference precedence
\* gives; a legacy level in 1..4 decides the level whatever the frequency
\* and grade are; without a legacy level, grade 2 with frequency rank 200
\* gives 5 and with frequency rank 201 gives 1.
C1_DerivedLevel ==
    ret # None =>
        LET a == Val(args)
        IN  /\ Val(ret) = ReferenceLevel(a.grade, a.freq, a.old_jlpt)
            /\ a.old_jlpt = Some(4) => Val(ret) = 5
            /\ a.old_jlpt = Some(3) => Val(ret) = 4
            /\ a.old_jlpt = Some(2) => Val(ret) = 3
            /\ a.old_jlpt = Some(1) => Val(ret) = 2
            /\ a.old_jlpt = None /\ a.grade = Some(2) /\ a.freq = Some(200)
                  => Val(ret) = 5
            /\ a.old_jlpt = None /\ a.grade = Some(2) /\ a.freq = Some(201)
                  => Val(ret) = 1

\* The level has been derived at the boundary of the first tier.
C1_Witness ==
    /\ ret = Some(5)
    /\ args = Some([grade |-> Some(2), freq |-> Some(200), old_jlpt |-> None])

\* What the build of the sample document is to leave in the destination.
SampleKanji ==
    [literal |-> <<"U+6C34">>, grade |-> Some(1), stroke_count |-> Some(4),
     freq |-> Some(60), jlpt |-> Some(5)]

SampleResult(t) ==
    /\ t.kanji = <<SampleKanji>>
    /\ Len(t.kanji_reading) = 2
    /\ Rows(t.kanji_reading) =
          {[literal |-> <<"U+6C34">>, type |-> "kun", reading |-> <<"mizu">>],
           [literal |-> <<"U+6C34">>, type |-> "on", reading |-> <<"SUI">>]}
    /\ kanji_seed(t) =
          {[literal |-> <<"U+6C34">>, lvl |-> Some(5), freq |-> Some(60),
            grade |-> Some(1), main_meaning |-> <<"water">>,
            on_prime |-> {<<"SUI">>}, kun_prime |-> {<<"mizu">>}]}
    /\ distractor_pool(t) = {<<Some(5), <<"water">>>>}

Returned(n) == pc = "done" /\ count = n

Ended == pc \in {"done", "failed"}

\* C2: the build of the sample document into a fresh destination returns 1
\* and leaves the one character row (U+6C34, 1, 4, 60, 5), the reading rows
\* (kun, mizu) and (on, SUI), a kanji_seed row for the literal with level 5,
\* meaning water and these readings, and the distractor_pool row (5, water).
C2_SampleBuild ==
    xml = SampleXml /\ runs = 1 /\ Ended => Returned(1) /\ SampleResult(disk)

\* The loop of build_sqlite alone does leave this result for the sample
\* document, whatever the batch size.
SampleLoopResult ==
    xml = SampleXml /\ pc = "done" => Returned(1) /\ SampleResult(disk)

\* C3: a second build with the same input against the same destination
\* completes and leaves every table with the rows the first build left.
C3_SecondBuild ==
    runs = 2 /\ Ended =>
        /\ pc = "done"
        /\ \A name \in TableNames : Rows(disk[name]) = Rows(before.rows[name])

\* Every table and view of the script exists in sch, and every index of the
\* script on a table.
SchemaExists(sch) ==
    \A i \in 1..Len(Script) :
        /\ Script[i].op \in {"table", "view"} =>
              HasObject(sch, {Script[i].op}, Script[i].name)
        /\ Script[i].op = "index" /\ HasObject(sch, {"table"}, Script[i].on) =>
              HasObject(sch, {"index"}, Script[i].name)

\* C4: schema creation on a destination where the tables, indexes and views
\* exist raises no error and changes neither the schema nor a stored row.
C4_CreateIfAbsent ==
    SchemaExists(before.schema) /\ pc # "start" =>
        err = "" /\ schema = before.schema /\ disk = before.rows

\* No row of tables t has an empty literal.
NoEmptyLiteral(t) ==
    \A name \in TableNames : \A row \in Rows(t[name]) : row.literal # <<>>

\* A step that is a record-end event for which no record with a literal is
\* open.
SkipsRecord == pos'.open = pos.open - 1 /\ (rec = None \/ Val(rec).literal = <<>>)

C6_CountsAccepted == pc \in {"loop", "done"} => count = ended

\* The build has returned 1 for a document of two records.
C6_Witness == Returned(1) /\ pos.nrec = 2 /\ ended = 1

\* No two rows of a child table agree on the table's natural key.
NaturalKey(name) ==
    CASE name = "kanji_reading" -> {"literal", "type", "reading"}
      [] name = "kanji_meaning" -> {"literal", "meaning"}
      [] name = "kanji_radical" -> {"literal", "rad_value"}
      [] name = "kanji_variant" -> {"literal", "var_type", "value"}

KeysUnique(t) ==
    \A name \in TableNames \ {"kanji"} :
        \A i, j \in 1..Len(t[name]) :
            (\A c \in NaturalKey(name) : t[name][i][c] = t[name][j][c]) => i = j

\* C7: in every state of a build each child table holds at most one row per
\* natural key, in the connection's tables and in the committed ones.
C7_ChildKeysUnique == KeysUnique(db) /\ KeysUnique(disk)

\* A record has offered a reading that an earlier record of the literal had
\* stored, and the row was left out.
C7_Witness ==
    /\ ignored >= 1
    /\ count = 2
    /\ Len(db.kanji_reading) = 1
    /\ db.kanji_meaning # <<>>

\* C8: the accepted records not yet committed never number more than the
\* batch size, and for a batch size of 1 or more a commit is issued as soon
\* as they reach it, so fewer than the batch size are left between events.
C8_BatchBound ==
    pc = "loop" =>
        /\ ended - saved <= batch_size
        /\ batch_size >= 1 => ended - saved < batch_size

\* A batch of two records has been committed in the middle of the document.
C8_Witness ==
    pc = "loop" /\ batch_size = 2 /\ saved = 2 /\ Len(disk.kanji) = 2

\* C9: when the build has returned, every accepted record is committed: the
\* committed tables are the tables the connection saw last.
C9_FinalCommit == pc = "done" => saved = ended /\ disk = db

\* The build has returned after a trailing batch of one record that the loop
\* had not committed.
C9_Witness ==
    pc = "done" /\ batch_size = 2 /\ batch = 1 /\ ended = 1 /\ disk.kanji # <<>>

\* C10: a record-start event inside an open record makes the build fail.
C10_NestedStartFails == pos.open > 1 => pc = "failed"

\* C11: when the reader meets malformed input the build fails at that point
\* without committing anything and without returning a count; once it has
\* failed no record is processed or committed and it never returns.
C11_MalformedAborts ==
    [][/\ (err = "" /\ err' = "ParseError") =>
            pc' = "failed" /\ disk' = disk /\ count' = count
       /\ pc = "failed" =>
            pc' = "failed" /\ disk' = disk /\ db' = db /\ count' = count]_vars

\* The reader has raised after a record was accepted and before its batch
\* was committed: the build has failed and the record is not stored.
C11_Witness ==
    /\ pc = "failed"
    /\ err = "ParseError"
    /\ count = 1
    /\ batch = 1
    /\ disk.kanji = <<>>

\* The levels a row of kanji may hold.
Levels == {Some(n) : n \in 1..5}

\* C12: every row of kanji holds a level in 1..5, never NULL; the row a
\* record writes holds the level the reference precedence derives from the
\* record's grade, frequency rank and legacy level, and a record with a
\* legacy level in 1..4 is never stored with that level.
C12_DerivedLevelStored ==
    /\ [](\A k \in Rows(db.kanji) \cup Rows(disk.kanji) : k.jlpt \in Levels)
    /\ [][count' = count + 1 =>
            LET r == Val(rec)
                row == db'.kanji[Len(db'.kanji)]
            IN  /\ row.literal = r.literal
                /\ row.jlpt = Some(ReferenceLevel(r.grade, r.freq, r.jlpt))
                /\ LegacyRule(r.jlpt) => row.jlpt # r.jlpt]_vars

\* A record of grade 2 and frequency rank 200, which the first tier would
\* put at level 5, has the legacy level 3 and is stored at level 4.
C12_Witness ==
    /\ xml = LevelsXml
    /\ \E k \in Rows(disk.kanji) :
          k.grade = Some(2) /\ k.freq = Some(200) /\ k.jlpt = Some(4)

\* The entries of the record of a one-record document, and the stroke
\* counts among them that are integers: one or two digits, with or without
\* white space around them.
EntriesGiven == {Val(args)[i] : i \in 1..Len(Val(args))}

IsInteger(txt) == strip(txt) \in {<<d>> : d \in Digits} \cup (Digits \X Digits)

StrokeCounts ==
    {int(strip(e.text)) : e \in {x \in EntriesGiven :
                                      x.tag = "stroke_count" /\ IsInteger(x.text)}}

Maximum(S) == CHOOSE m \in S : \A n \in S : n <= m

\* The step is the end event of a stroke-count entry that is not an integer.
InvalidStrokeCount ==
    /\ xml = StrokesXml
    /\ pos'.n = pos.n + 1
    /\ Events[pos'.n].event = "end"
    /\ Events[pos'.n].elem.tag = "stroke_count"
    /\ ~IsInteger(Events[pos'.n].elem.text)

\* C13: the stroke_count stored for a record is the maximum of the record's
\* stroke-count entries that are integers (NULL when there is none; 4 for
\* the entries 4 and 4), and an entry that is not an integer leaves the
\* record's stroke_count as it was.
C13_StrokeCountMax ==
    /\ [](xml = StrokesXml /\ pc = "done" =>
            /\ Len(disk.kanji) = 1
            /\ disk.kanji[1].stroke_count =
                  IF StrokeCounts = {} THEN None ELSE Some(Maximum(StrokeCounts)))
    /\ [][InvalidStrokeCount =>
            rec # None /\ rec' # None
                /\ Val(rec').stroke_count = Val(rec).stroke_count]_vars

\* The record with the stroke counts 4, x and 4 is stored with 4.
C13_Witness ==
    /\ xml = StrokesXml
    /\ pc = "done"
    /\ args = Some(<< Element("stroke_count", <<"4">>, {}),
                      Element("stroke_count", <<"x">>, {}),
                      Element("stroke_count", <<"4">>, {}) >>)
    /\ disk.kanji[1].stroke_count = Some(4)

\* C14: in kanji_priority every character with a frequency rank comes
\* before every character without one; among the characters without a
\* frequency rank those with a grade come before those without, in the
\* order of their grades; characters of one score come in the order of
\* their literals.
C14_PriorityOrder ==
    \A a, b \in kanji_priority(disk) :
        /\ a.freq # None /\ b.freq = None => OrderedBefore(a, b)
        /\ a.freq = None /\ b.freq = None /\ a.grade # None /\ b.grade = None
              => OrderedBefore(a, b)
        /\ a.freq = None /\ b.freq = None /\ a.grade # None /\ b.grade # None
              /\ Val(a.grade) < Val(b.grade) => OrderedBefore(a, b)
        /\ a.priority_score = b.priority_score
              /\ Collation(a.literal) < Collation(b.literal) => OrderedBefore(a, b)

\* The order does hold among the characters whose frequency rank is at most
\* 3000 and whose grade is at most 1000.
InScoreBands(k) ==
    /\ k.freq # None => Val(k.freq) <= 3000
    /\ k.grade # None => Val(k.grade) <= 1000

PriorityOrderInBands ==
    \A a, b \in {k \in kanji_priority(disk) : InScoreBands(k)} :
        /\ a.freq # None /\ b.freq = None => OrderedBefore(a, b)
        /\ a.freq = None /\ b.freq = None /\ a.grade # None /\ b.grade = None
              => OrderedBefore(a, b)
        /\ a.freq = None /\ b.freq = None /\ a.grade # None /\ b.grade # None
              /\ Val(a.grade) < Val(b.grade) => OrderedBefore(a, b)
        /\ a.priority_score = b.priority_score
              /\ Collation(a.literal) < Collation(b.literal) => OrderedBefore(a, b)

\* The literals stored with a level and with at least one English meaning.
SeedLiterals(t) ==
    {k.literal : k \in {x \in Rows(t.kanji) :
        /\ x.jlpt # None
        /\ \E m \in Rows(t.kanji_meaning) : m.literal = x.literal /\ m.lang = "en"}}

\* C15: after a build, whatever kanji_seed returns has rows for exactly the
\* literals stored with a level and an English meaning, no two rows for one
\* literal, and in every row a main_meaning that is not empty and is stored
\* as a meaning of the row's literal.
C15_SeedView ==
    pc = "done" =>
        \A seed \in kanji_seed_results(disk) :
            /\ {seed[i].literal : i \in DOMAIN seed} = SeedLiterals(disk)
            /\ \A i, j \in DOMAIN seed : seed[i].literal = seed[j].literal => i = j
            /\ \A i \in DOMAIN seed :
                  /\ seed[i].main_meaning # <<>>
                  /\ \E m \in Rows(disk.kanji_meaning) :
                        /\ m.literal = seed[i].literal
                        /\ m.meaning = seed[i].main_meaning

\* A build has stored two literals, one with two English meanings and one
\* with none: kanji_seed has a row for the first only, with either meaning.
C15_Witness ==
    /\ pc = "done"
    /\ xml = SeedXml
    /\ Len(disk.kanji) = 2
    /\ Len(disk.kanji_meaning) = 2
    /\ Cardinality(SeedLiterals(disk)) = 1
    /\ Cardinality(kanji_seed_results(disk)) = 2

\* The entries of the one-record document with a tag, a text that is not
\* empty and the attribute name = value, or no attribute of that name.
EntriesWith(tag, name, value) ==
    {e \in EntriesGiven : /\ e.tag = tag
                          /\ strip(e.text) # <<>>
                          /\ <<name, value>> \in e.attrib}

EntriesWithout(tag, name) ==
    {e \in EntriesGiven : /\ e.tag = tag
                          /\ strip(e.text) # <<>>
                          /\ \A a \in e.attrib : a[1] # name}

ReadingRowsFor(type, kind) ==
    {[literal |-> <<"U+6C34">>, type |-> type, reading |-> strip(e.text)] :
        e \in EntriesWith("reading", "r_type", kind)}

\* C16: every stored reading row has the type on or kun, and the reading
\* rows stored for a record are an on row for each of its entries of kind
\* ja_on with a text, a kun row for each of kind ja_kun with a text, and no
\* other row.
C16_ReadingTypes ==
    /\ \A row \in Rows(db.kanji_reading) \cup Rows(disk.kanji_reading) :
          row.type \in {"on", "kun"}
    /\ xml = ReadingsXml /\ pc = "done" =>
          Rows(disk.kanji_reading) =
              ReadingRowsFor("on", "ja_on") \cup ReadingRowsFor("kun", "ja_kun")

\* The record with a pinyin reading, an on reading and a kun reading, all of
\* one text, is stored with the on row and the kun row.
C16_Witness ==
    /\ xml = ReadingsXml
    /\ pc = "done"
    /\ args = Some(<< Element("reading", <<"SUI">>, {<<"r_type", "pinyin">>}),
                      Element("reading", <<"SUI">>, {<<"r_type", "ja_on">>}),
                      Element("reading", <<"SUI">>, {<<"r_type", "ja_kun">>}) >>)
    /\ Len(disk.kanji_reading) = 2

\* C17: every stored meaning row has lang en, and the meaning rows stored
\* for a record are a row for each of its meaning entries with a text and
\* with m_lang en or without m_lang, and no other row.
C17_MeaningLanguage ==
    /\ \A row \in Rows(db.kanji_meaning) \cup Rows(disk.kanji_meaning) :
          row.lang = "en"
    /\ xml = MeaningsXml /\ pc = "done" =>
          Rows(disk.kanji_meaning) =
              {[literal |-> <<"U+6C34">>, lang |-> "en", meaning |-> strip(e.text)] :
                  e \in EntriesWith("meaning", "m_lang", "en")
                          \cup EntriesWithout("meaning", "m_lang")}

\* The record with a French meaning, a meaning without m_lang and an English
\* meaning without text is stored with the one meaning row.
C17_Witness ==
    /\ xml = MeaningsXml
    /\ pc = "done"
    /\ args = Some(<< Element("meaning", <<"eau">>, {<<"m_lang", "fr">>}),
                      Element("meaning", <<"water">>, {}),
                      Element("meaning", <<>>, {<<"m_lang", "en">>}) >>)
    /\ disk.kanji_meaning =
          <<[literal |-> <<"U+6C34">>, lang |-> "en", meaning |-> <<"water">>]>>

\* C18: whenever the reader is outside every record element, so after the
\* record-end event of every record that is not nested in another, no
\* record is open, whether the record was stored or skipped.
C18_IdleAfterRecordEnd ==
    pc \in {"loop", "done"} /\ pos.open = 0 => rec = None

\* Every row of tables t is a row of tables u.
Kept(t, u) == \A name \in TableNames : Rows(t[name]) \subseteq Rows(u[name])

\* C19 as stated: no step of a build removes or changes a row of a table,
\* among the committed rows or, while the build has not failed, among the
\* rows the connection has written.
C19_AppendOnly ==
    [][Kept(disk, disk') /\ (pc' # "failed" => Kept(db, db'))]_vars

\* Every row of a child table of t is in u, and every row of kanji in t is
\* in u or has given way to a row of its literal.
KeptOrReplaced(t, u) ==
    /\ \A name \in TableNames \ {"kanji"} : Rows(t[name]) \subseteq Rows(u[name])
    /\ \A row \in Rows(t.kanji) :
          \/ row \in Rows(u.kanji)
          \/ \E new \in Rows(u.kanji) : new.literal = row.literal

\* C19 amended: no step of a build removes or changes a row of a child
\* table; a row of kanji is removed only by a record of the same literal,
\* whose row takes its place, and the rows of other literals stay as they
\* are.
C19_AppendOnlyButUpsert ==
    [][/\ KeptOrReplaced(disk, disk')
       /\ pc' # "failed" => KeptOrReplaced(db, db')
       /\ pc' # "failed" /\ db' # db /\ rec # None =>
             \A row \in Rows(db.kanji) :
                row.literal # Val(rec).literal => row \in Rows(db'.kanji)]_vars

\* Two records of one literal have been stored and committed, each with
\* a grade: kanji holds one row for the literal.
C19_Witness ==
    /\ xml = PriorityXml
    /\ count = 2
    /\ saved = 2
    /\ pos.nf = 4
    /\ Len(disk.kanji) = 1
    /\ disk.kanji[1].grade # None

\* C20: VACUUM and ANALYZE have been executed when the build returns, and
\* have not been executed before the load is over.
C20_MaintenanceAfterLoad ==
    /\ pc = "done" => Maintained
    /\ pc \in {"start", "schema", "loop"} => ~Maintained

\* C21: the reader's tree holds no record element once the record-end event
\* of a record that is not nested in another has been handled, and never
\* the elements of more than one such record.
C21_BufferReleased ==
    pc \in {"loop", "done"} =>
        /\ pos.open = 0 => root = 0
        /\ pos.open <= 1 => root <= 1

\* C22: no field element makes the build fail: the only error that ends
\* the loop is the reader's.
C22_ClassifiersNeverRaise == pc = "failed" => err = "ParseError"

\* Table rows (in rowid order) begins with the rows of table before.
BeginsWith(rows, before_rows) ==
    /\ Len(before_rows) <= Len(rows)
    /\ SubSeq(rows, 1, Len(before_rows)) = before_rows

\* C23: when a record offers a child row whose natural key is stored, the
\* build goes on, the record is counted, every row the child tables held
\* stays where and as it was, and so does every row of kanji of another
\* literal.
C23_DuplicateIgnored ==
    [][ignored' > ignored =>
          /\ pc' = "loop"
          /\ count' = count + 1
          /\ \A name \in TableNames \ {"kanji"} : BeginsWith(db'[name], db[name])
          /\ \A k \in Rows(db.kanji) :
                k.literal # Val(rec).literal => k \in Rows(db'.kanji)]_vars

\* The second record of a literal has offered the on reading the first had
\* stored before its kun reading: the two rows are as the first left them.
C23_Witness ==
    /\ xml = LiteralsXml
    /\ ignored = 1
    /\ count = 2
    /\ Len(db.kanji_reading) = 2
    /\ db.kanji_reading[1].type = "on"
    /\ accepted[2].readings_on # <<>>
    /\ accepted[2].readings_kun = <<>>

\* The places in list where a value occurs for the first time, and the
\* list of the values at these places, in their order.
FirstPlaces(list) ==
    {i \in 1..Len(list) : \A j \in 1..(i - 1) : list[j] # list[i]}

RECURSIVE InOrder(_, _)
InOrder(list, places) ==
    IF places = {} THEN <<>>
    ELSE LET first == CHOOSE i \in places : \A j \in places : i <= j
         IN  <<list[first]>> \o InOrder(list, places \ {first})

FirstOccurrences(list) == InOrder(list, FirstPlaces(list))

\* The columns of the rows in their order.
Column(rows, c) == [i \in 1..Len(rows) |-> rows[i][c]]

\* The on rows and the kun rows among the reading rows offered.
OfType(rows, type) == SelectSeq(rows, LAMBDA row : row.type = type)

VariantPairs(rows) == [i \in 1..Len(rows) |-> <<rows[i].var_type, rows[i].value>>]

\* C24: whatever record is open, each list of rows it would hand to storage
\* holds every distinct value collected for the record once, in the order
\* of the first occurrences.
C24_ListsDeduplicated ==
    rec # None =>
        LET r == Val(rec)
        IN  /\ Column(RadicalRows(r), "rad_value") = FirstOccurrences(r.radicals)
            /\ Column(OfType(ReadingRows(r), "on"), "reading")
                  = FirstOccurrences(r.readings_on)
            /\ Column(OfType(ReadingRows(r), "kun"), "reading")
                  = FirstOccurrences(r.readings_kun)
            /\ Column(MeaningRows(r), "meaning") = FirstOccurrences(r.meanings_en)
            /\ VariantPairs(VariantRows(r)) = FirstOccurrences(r.variants)

\* The record stored had collected the meanings aqua, water and aqua, in
\* this order, and the meaning rows are aqua and then water.
C24_Witness ==
    /\ accepted # <<>>
    /\ accepted[1].meanings_en = << <<"aqua">>, <<"water">>, <<"aqua">> >>
    /\ Column(db.kanji_meaning, "meaning") = << <<"aqua">>, <<"water">> >>

\* Every row of a child table of t has the literal of a row of kanji.
ChildrenHaveCharacter(t) ==
    \A name \in TableNames \ {"kanji"} :
        \A row \in Rows(t[name]) :
            \E k \in Rows(t.kanji) : k.literal = row.literal

\* C25: in the committed tables, and in the tables the connection sees
\* between two events, every row of a child table has the literal of a row
\* of kanji: no commit falls between the row of a record and its child rows.
C25_ChildrenCommittedWithCharacter ==
    ChildrenHaveCharacter(disk) /\ ChildrenHaveCharacter(db)

\* With a batch size of 1 a record with three child rows has been committed
\* and the document is not at its end.
C25_Witness ==
    /\ pc = "loop"
    /\ batch_size = 1
    /\ Len(disk.kanji) = 1
    /\ ChildRows(disk) = 3

\* The tables that storing records, in order, leaves in an empty destination
\* of schema sch.
RECURSIVE Replay(_, _)
Replay(sch, records) ==
    IF records = <<>> THEN EmptyTables
    ELSE insert_character_data(
             sch, Replay(sch, SubSeq(records, 1, Len(records) - 1)),
             records[Len(records)])

\* The committed tables hold the first saved of the accepted records, and
\* nothing else.
CommittedPrefix ==
    /\ saved <= Len(accepted)
    /\ disk = Replay(schema, SubSeq(accepted, 1, saved))

IsMultiple(n, m) == \E k \in 0..n : n = k * m

\* C26 as stated: until the final commit, and after the build has failed,
\* the number of committed accepted records is a multiple of the batch size
\* and the committed tables hold a prefix of the accepted records.
C26_CommittedPrefixOfBatches ==
    pc \in {"loop", "failed"} => IsMultiple(saved, batch_size) /\ CommittedPrefix

\* C26 amended: the same for a batch size of 1 or more; for the batch size 0
\* every accepted record is committed as it is accepted, and the committed
\* tables hold a prefix of the accepted records for every batch size.
C26_CommittedPrefixOfWholeBatches ==
    pc \in {"loop", "failed"} =>
        /\ batch_size >= 1 => IsMultiple(saved, batch_size)
        /\ batch_size = 0 => saved = Len(accepted)
        /\ CommittedPrefix

\* The reader has raised after a whole batch of two records: both are in the
\* committed tables.
C26_Witness ==
    /\ pc = "failed"
    /\ batch_size = 2
    /\ Len(accepted) = 2
    /\ saved = 2
    /\ disk.kanji # <<>>

\* The places of accepted whose record has literal l.
WithLiteral(l) == {i \in 1..Len(accepted) : accepted[i].literal = l}

\* The rows of table name that _insert_character_data offers for record r.
Offered(name, r) ==
    CASE name = "kanji_radical" -> RadicalRows(r)
      [] name = "kanji_reading" -> ReadingRows(r)
      [] name = "kanji_meaning" -> MeaningRows(r)
      [] name = "kanji_variant" -> VariantRows(r)

\* The places of table rows whose row has literal l.
PlacesOf(rows, l) == {i \in 1..Len(rows) : rows[i].literal = l}

\* C27: when two accepted records carry the same literal, the character
\* table has a single row for it, the one of the later record (its grade,
\* stroke_count, frequency and derived level), each child table holds for
\* the literal the union of the entries of both records, each once, and
\* both records are counted, so the count is greater than the number of
\* character rows.
C27_SameLiteralTwice ==
    pc \in {"loop", "done"} =>
        \A i, j \in 1..Len(accepted) :
            /\ i < j
            /\ accepted[i].literal = accepted[j].literal
            /\ j = Maximum(WithLiteral(accepted[j].literal))
            => LET l == accepted[j].literal
               IN  /\ Cardinality(PlacesOf(db.kanji, l)) = 1
                   /\ \A p \in PlacesOf(db.kanji, l) :
                         db.kanji[p] = KanjiRow(accepted[j])
                   /\ \A name \in TableNames \ {"kanji"} :
                         /\ {db[name][p] : p \in PlacesOf(db[name], l)}
                               = UNION {Rows(Offered(name, accepted[k])) :
                                           k \in WithLiteral(l)}
                         /\ \A p, q \in PlacesOf(db[name], l) :
                               db[name][p] = db[name][q] => p = q
                   /\ count = Len(accepted)
                   /\ count > Len(db.kanji)

\* Two records of U+6C34 were accepted, the first with grade 1 and the
\* meaning water, the second with neither: the one character row has no
\* grade and the meaning of the first record is stored.
C27_Witness ==
    /\ xml = RepeatsXml
    /\ count = 2
    /\ accepted[1].grade = Some(1)
    /\ accepted[1].meanings_en # <<>>
    /\ accepted[2].grade = None
    /\ accepted[2].meanings_en = <<>>
    /\ Len(db.kanji) = 1
    /\ db.kanji[1].grade = None
    /\ Column(db.kanji_meaning, "meaning") = << <<"water">> >>

\* The places of the given entries that have tag.
PlacesTagged(tag) == {i \in 1..Len(Val(args)) : Val(args)[i].tag = tag}

\* What the last given entry of tag says: its integer, or nothing when it is
\* not an integer; nothing when there is no such entry.
LastEntry(tag) ==
    IF PlacesTagged(tag) = {} THEN None
    ELSE LET e == Val(args)[Maximum(PlacesTagged(tag))]
         IN  IF IsInteger(e.text) THEN Some(int(strip(e.text))) ELSE None

\* C28: the grade, freq and jlpt of an accepted record are what the last
\* entry of each says, an integer or nothing, so an entry that is not an
\* integer erases an earlier integer; the stored row has that grade and
\* that freq.
C28_LastEntryWins ==
    xml = FieldsXml /\ accepted # <<>> =>
        /\ accepted[1].grade = LastEntry("grade")
        /\ accepted[1].freq = LastEntry("freq")
        /\ accepted[1].jlpt = LastEntry("jlpt")
        /\ accepted[1].stroke_count = None
        /\ pc = "done" =>
              /\ Len(disk.kanji) = 1
              /\ disk.kanji[1].grade = LastEntry("grade")
              /\ disk.kanji[1].freq = LastEntry("freq")

\* The record with the grades 3 and x and the frequency rank 7 is stored with
\* no grade and the frequency rank 7.
C28_Witness ==
    /\ xml = FieldsXml
    /\ pc = "done"
    /\ Val(args) = << Element("grade", <<"3">>, {}),
                      Element("grade", <<"x">>, {}),
                      Element("freq", <<"7">>, {}) >>
    /\ disk.kanji[1].grade = None
    /\ disk.kanji[1].freq = Some(7)

\* The step is an event of a field, or of another element that is not a
\* record, delivered while no record is open.
FieldWhileIdle ==
    /\ pc = "loop"
    /\ rec = None
    /\ pos' # pos
    /\ pos'.nrec = pos.nrec
    /\ pos'.open = pos.open

\* C29: an event of a field delivered while no record is open is ignored: it
\* opens no record, the build goes on, and nothing but the reader's position
\* changes, neither the tables nor the count nor the records accepted.
C29_IdleFieldsIgnored ==
    [][FieldWhileIdle =>
          /\ rec' = None
          /\ pc' = "loop"
          /\ UNCHANGED <<db, disk, count, batch, ended, saved, ignored,
                         accepted, root, schema, err, ret>>]_vars

\* The header of the sample document has been read, before the first record:
\* no record is open and the tables are empty.
C29_Witness ==
    /\ xml = SampleXml
    /\ pc = "loop"
    /\ pos.n = 2
    /\ Events[1].elem.tag = "header"
    /\ rec = None
    /\ ChildRows(db) = 0
    /\ db.kanji = <<>>

\* The documents whose build may fail: those that are not well formed and
\* those with a grade that int() refuses.
MayFail == {BrokenXml, DigitsXml}

\* C30: with a batch size of 1 or less, 0 and negative ones included, every
\* accepted record is committed as it is accepted: the committed tables
\* always hold all the accepted records. The build terminates, and for a
\* document that is well formed and raises nothing in a classifier it ends
\* with all accepted records committed and counted.
C30_SmallBatchCommitsEach ==
    /\ [](/\ saved = Len(accepted)
          /\ batch = 0
          /\ disk = Replay(schema, accepted))
    /\ <>(pc \in {"done", "failed"})
    /\ xml \notin MayFail =>
          <>(pc = "done" /\ count = Len(accepted) /\ saved = count)

\* With the batch size -1 two records were accepted and both are committed
\* while the loop is still running.
C30_Witness ==
    /\ batch_size = -1
    /\ pc = "loop"
    /\ Len(accepted) = 2
    /\ saved = 2
    /\ disk = db
    /\ disk.kanji # <<>>

====
